---- MODULE Spec2Model ----
(***************************************************************************)
(* Model of silence_remover.py: the silence compactor                      *)
(* (process_audio_simple), the file-watch driver (VoiceFileHandler,        *)
(* watch_voice_file) and the web driver (create_web_app.index).            *)
(*                                                                         *)
(* Units.  Samples are integers, in multiples of 1e-5 (librosa's amin), so *)
(* that amin^2 is 1 in squared sample units.  Durations are integers in    *)
(* milliseconds; the sample rate is an integer in Hz.  Thresholds are      *)
(* integers in dB, multiples of 10.  Products and quotients are exact:      *)
(* the rounding error of the floating-point operations is not modelled.    *)
(***************************************************************************)
EXTENDS Integers, Sequences, FiniteSets, TLC

\* ------------------------------------------------------------------ bounds
MaxLen == 6
MaxLenTwice == 7
MaxQueue == 2
MaxEvents == 3
MaxThreads == 2

\* ------------------------------------------------------- input domains
Amplitudes == {0, 1, 300}
SampleRates == {0, 100, 200}
Thresholds == {-40}
MinDurations == {-10, 16, 30}
TargetDurations == {-10, 16, 30}

\* library defaults of librosa.amplitude_to_db, in the model's units
AminSq == 1
TopDb == 80

VARIABLES
    \* process_audio_simple
    audio, sr, silence_threshold, min_silence_duration, target_silence_duration,
    pc, silent_frames, i, segments, runs, result, error, pass,
    \* VoiceFileHandler / watch_voice_file
    processing, mainpc, hpc, event, queue, inflight, emitted, exists,
    \* create_web_app.index
    wpc, request, response, written, failed, raised

compactVars == <<audio, sr, silence_threshold, min_silence_duration,
                 target_silence_duration, pc, silent_frames, i, segments,
                 runs, result, error, pass>>
watchVars == <<processing, mainpc, hpc, event, queue, inflight, emitted, exists>>
webVars == <<wpc, request, response, written, failed, raised>>
vars == <<compactVars, watchVars, webVars>>

\* ----------------------------------------------------------- arithmetic
Max(a, b) == IF a >= b THEN a ELSE b
Min(a, b) == IF a <= b THEN a ELSE b

\* Python int(n/d) for d > 0: truncation toward zero
IntTrunc(n, d) == IF n >= 0 THEN n \div d ELSE -((-n) \div d)

\* round(n/d) for d > 0, n >= 0: nearest integer (no tie occurs in the domains used)
RoundDiv(n, d) == (2 * n + d) \div (2 * d)

RECURSIVE Pow10(_)
Pow10(k) == IF k <= 0 THEN 1 ELSE 10 * Pow10(k - 1)

RECURSIVE SumTo(_, _)
SumTo(f, n) == IF n = 0 THEN 0 ELSE f[n] + SumTo(f, n - 1)

RECURSIVE Flatten(_)
Flatten(ss) == IF ss = <<>> THEN <<>> ELSE Head(ss) \o Flatten(Tail(ss))

\* faulty variant of Slice: the end index taken as inclusive of one sample less
SliceDropLast(a, lo, hi) == SubSeq(a, lo + 1, Min(hi, Len(a)) - 1)

\* Python slice a[lo:hi] for 0 <= lo, on a 1-based TLA+ sequence
Slice(a, lo, hi) == SubSeq(a, lo + 1, Min(hi, Len(a)))

Zeros(n) == [k \in 1..n |-> 0]

\* ------------------------------------------------- framing and energy
\* frame_length = int(0.025 * sr)
FrameLength(rate) == IntTrunc(25 * rate, 1000)
\* hop_length = int(0.010 * sr)
HopLength(rate) == IntTrunc(10 * rate, 1000)

\* faulty variant of SilenceSamples: rounding to nearest instead of truncating
SilenceSamplesRounded(target, rate) == RoundDiv(target * rate, 1000)

\* silence_samples = int(target_silence_duration * sr)
SilenceSamples(target, rate) == IntTrunc(target * rate, 1000)

\* librosa.feature.rms with its defaults (center=True, pad_mode="constant"):
\* y is padded by frame_length // 2 zeros on both sides, and frames are cut
\* every hop_length samples
NumFrames(n, fl, hop) == 1 + (n + 2 * (fl \div 2) - fl) \div hop

\* sample of the padded signal at 0-based padded index j
Padded(a, fl, j) ==
    LET k == j - (fl \div 2) IN IF k >= 0 /\ k < Len(a) THEN a[k + 1] ELSE 0

\* fl * (mean square of frame t): the frame's sum of squares
FrameSumSq(a, fl, hop, t) ==
    SumTo([j \in 1..fl |-> Padded(a, fl, t * hop + j - 1) * Padded(a, fl, t * hop + j - 1)], fl)

\* rms_db < silence_threshold, with rms_db = amplitude_to_db(rms, ref=np.max):
\*   10*log10(max(amin^2, p)) - 10*log10(max(amin^2, pmax)), floored at -top_db.
\* p and pmax are the frame's and the loudest frame's sums of squares.
IsSilent(p, pmax, fl, thr) ==
    LET lo == Max(fl * AminSq, p)
        ref == Max(fl * AminSq, pmax)
    IN  IF thr >= 0
          THEN thr > 0 \/ lo < ref
          ELSE /\ -thr < TopDb
               /\ lo <= (ref - 1) \div Pow10((-thr) \div 10)

\* silent_frames for a waveform (frames are numbered from 0; the sequence is 1-based)
SilentFrames(a, rate, thr) ==
    LET fl == FrameLength(rate)
        hop == HopLength(rate)
        n == NumFrames(Len(a), fl, hop)
        e == [t \in 1..n |-> FrameSumSq(a, fl, hop, t - 1)]
        pmax == CHOOSE m \in {e[t] : t \in 1..n} : \A t \in 1..n : e[t] <= m
    IN  [t \in 1..n |-> IsSilent(e[t], pmax, fl, thr)]

\* faulty variant of RunEnd: the inner loop advances by a single frame
RunEndOne(sf, k, s) == k + 1

\* inner while loop: first index >= k whose classification differs from s
RECURSIVE RunEnd(_, _, _)
RunEnd(sf, k, s) ==
    IF k < Len(sf) /\ sf[k + 1] = s THEN RunEnd(sf, k + 1, s) ELSE k

\* faulty variant of LongEnough: the division by the sample rate forgotten
LongEnoughNoRate(frames, hop, rate, mindur) == frames * hop * 1000 >= mindur

\* silence_duration >= min_silence_duration, silence_duration = frames * hop / sr
LongEnough(frames, hop, rate, mindur) == frames * hop * 1000 >= mindur * rate

\* -------------------------------------------------- process_audio_simple
Threads == 1..MaxThreads
NoEvent == [is_directory |-> FALSE, name |-> "none"]
NoRequest == [method |-> "none"]

WaveformsUpTo(m) == UNION {[1..n -> Amplitudes] : n \in 1..m}

WatchIdle ==
    /\ processing = FALSE /\ mainpc = "off"
    /\ hpc = [t \in Threads |-> "idle"] /\ event = [t \in Threads |-> NoEvent]
    /\ queue = <<>> /\ inflight = 0 /\ emitted = 0 /\ exists = FALSE

WebIdle ==
    /\ wpc = "off" /\ request = NoRequest /\ response = "none"
    /\ written = FALSE /\ failed = FALSE /\ raised = FALSE

\* the state on entry to process_audio_simple
CompactEntry ==
    /\ pc = "start"
    /\ silent_frames = <<>>
    /\ i = 0
    /\ segments = <<>>
    /\ runs = <<>>
    /\ result = <<>>
    /\ error = "none"
    /\ pass = 1

CompactInit ==
    /\ audio \in WaveformsUpTo(MaxLen)
    /\ sr \in SampleRates
    /\ silence_threshold \in Thresholds
    /\ min_silence_duration \in MinDurations
    /\ target_silence_duration \in TargetDurations
    /\ CompactEntry

\* lines 46-58: framing, energy, classification; librosa raises for a frame
\* or hop length below 1
Classify ==
    /\ pc = "start"
    /\ IF FrameLength(sr) < 1 \/ HopLength(sr) < 1
         THEN /\ pc' = "error"
              /\ error' = "ParameterError"
              /\ UNCHANGED silent_frames
         ELSE /\ pc' = "scan"
              /\ silent_frames' = SilentFrames(audio, sr, silence_threshold)
              /\ UNCHANGED error
    /\ i' = 0
    /\ segments' = <<>>
    /\ runs' = <<>>
    /\ UNCHANGED <<audio, sr, silence_threshold, min_silence_duration,
                   target_silence_duration, result, pass>>
    /\ UNCHANGED <<watchVars, webVars>>

OutLen == Len(Flatten(segments))

\* lines 61-71: one audible run
ScanAudible ==
    /\ pc = "scan"
    /\ i < Len(silent_frames)
    /\ ~silent_frames[i + 1]
    /\ LET audio_start == i
           audio_end == RunEnd(silent_frames, i, FALSE)
           start_sample == audio_start * HopLength(sr)
           end_sample == Min(audio_end * HopLength(sr), Len(audio))
           piece == Slice(audio, start_sample, end_sample)
       IN  /\ i' = audio_end
           /\ segments' = Append(segments, piece)
           /\ runs' = Append(runs, [silent |-> FALSE, first |-> audio_start,
                                    last |-> audio_end, start_sample |-> start_sample,
                                    end_sample |-> end_sample, shortened |-> FALSE,
                                    out_start |-> OutLen,
                                    out_end |-> OutLen + Len(piece)])
    /\ UNCHANGED <<audio, sr, silence_threshold, min_silence_duration,
                   target_silence_duration, pc, silent_frames, result, error, pass>>
    /\ UNCHANGED <<watchVars, webVars>>

\* lines 73-92: one silent run
ScanSilent ==
    /\ pc = "scan"
    /\ i < Len(silent_frames)
    /\ silent_frames[i + 1]
    /\ LET silence_start == i
           silence_end == RunEnd(silent_frames, i, TRUE)
           hop == HopLength(sr)
           start_sample == silence_start * hop
           end_sample == Min(silence_end * hop, Len(audio))
           silence_samples == SilenceSamples(target_silence_duration, sr)
           long == LongEnough(silence_end - silence_start, hop, sr, min_silence_duration)
           piece == IF long THEN Zeros(silence_samples)
                    ELSE Slice(audio, start_sample, end_sample)
       IN  IF long /\ silence_samples < 0
             THEN \* np.zeros of a negative size raises
                  /\ pc' = "error"
                  /\ error' = "ValueError"
                  /\ UNCHANGED <<i, segments, runs>>
             ELSE /\ i' = silence_end
                  /\ segments' = IF long \/ end_sample > start_sample
                                   THEN Append(segments, piece) ELSE segments
                  /\ runs' = Append(runs, [silent |-> TRUE, first |-> silence_start,
                                           last |-> silence_end, start_sample |-> start_sample,
                                           end_sample |-> end_sample, shortened |-> long,
                                           out_start |-> OutLen,
                                           out_end |-> OutLen + Len(piece)])
                  /\ UNCHANGED <<pc, error>>
    /\ UNCHANGED <<audio, sr, silence_threshold, min_silence_duration,
                   target_silence_duration, silent_frames, result, pass>>
    /\ UNCHANGED <<watchVars, webVars>>

\* lines 94-100: the loop has ended; concatenate
Concatenate ==
    /\ pc = "scan"
    /\ i >= Len(silent_frames)
    /\ result' = IF segments # <<>> THEN Flatten(segments) ELSE audio
    /\ pc' = "done"
    /\ UNCHANGED <<audio, sr, silence_threshold, min_silence_duration,
                   target_silence_duration, silent_frames, i, segments, runs,
                   error, pass>>
    /\ UNCHANGED <<watchVars, webVars>>

\* a second call of process_audio_simple, on the output of the first and
\* with the same parameters
Recompact ==
    /\ pc = "done"
    /\ pass = 1
    /\ Len(result) >= 1
    /\ audio' = result
    /\ pass' = 2
    /\ pc' = "start"
    /\ silent_frames' = <<>>
    /\ i' = 0
    /\ segments' = <<>>
    /\ runs' = <<>>
    /\ result' = <<>>
    /\ UNCHANGED <<sr, silence_threshold, min_silence_duration,
                   target_silence_duration, error>>
    /\ UNCHANGED <<watchVars, webVars>>

Next ==
    \/ Classify
    \/ ScanAudible
    \/ ScanSilent
    \/ Concatenate

Init == CompactInit /\ WatchIdle /\ WebIdle

Spec == Init /\ [][Next]_vars

\* compact applied twice, to inputs and parameters compact accepts
TwiceInit ==
    /\ audio \in WaveformsUpTo(MaxLenTwice)
    /\ sr \in {r \in SampleRates : r > 0}
    /\ silence_threshold \in Thresholds
    /\ min_silence_duration \in {d \in MinDurations : d >= 0}
    /\ target_silence_duration \in {d \in TargetDurations : d >= min_silence_duration}
    /\ CompactEntry

TwiceNext ==
    \/ Classify
    \/ ScanAudible
    \/ ScanSilent
    \/ Concatenate
    \/ Recompact

InitTwice == TwiceInit /\ WatchIdle /\ WebIdle

SpecTwice == InitTwice /\ [][TwiceNext]_vars

\* the compactor at rest, for the specifications of the drivers
CompactIdle ==
    /\ audio = <<>> /\ sr = 0 /\ silence_threshold = -40
    /\ min_silence_duration = 100 /\ target_silence_duration = 100
    /\ pc = "off" /\ silent_frames = <<>> /\ i = 0 /\ segments = <<>>
    /\ runs = <<>> /\ result = <<>> /\ error = "none" /\ pass = 1

\* ------------------------------- watch_voice_file and VoiceFileHandler
\* inflight counts the calls of detect_and_remove_silence on voice.wav that
\* have started and not returned; exists says whether voice.wav exists when
\* the watcher starts

Events == [is_directory : BOOLEAN, name : {"voice.wav", "other.wav"}]

WatchInit ==
    /\ processing = FALSE
    /\ mainpc = "initial"
    /\ hpc = [t \in Threads |-> "idle"]
    /\ event = [t \in Threads |-> NoEvent]
    /\ queue = <<>>
    /\ inflight = 0
    /\ emitted = 0
    /\ exists \in BOOLEAN

\* lines 205-216: the file already exists, process it once
InitialBegin ==
    /\ mainpc = "initial"
    /\ IF exists
         THEN mainpc' = "initial_run" /\ inflight' = inflight + 1
         ELSE mainpc' = "start" /\ UNCHANGED inflight
    /\ UNCHANGED <<processing, hpc, event, queue, emitted, exists>>
    /\ UNCHANGED <<compactVars, webVars>>

\* detect_and_remove_silence returns (it catches its own exceptions)
InitialEnd ==
    /\ mainpc = "initial_run"
    /\ mainpc' = "start"
    /\ inflight' = inflight - 1
    /\ UNCHANGED <<processing, hpc, event, queue, emitted, exists>>
    /\ UNCHANGED <<compactVars, webVars>>

\* lines 224-227: the handler is created and the observer started
StartObserver ==
    /\ mainpc = "start"
    /\ mainpc' = "watching"
    /\ processing' = FALSE
    /\ UNCHANGED <<hpc, event, queue, inflight, emitted, exists>>
    /\ UNCHANGED <<compactVars, webVars>>

\* the observer's emitter queues a filesystem event, at any time while the
\* observer runs, also while a handler is running
Emit(e) ==
    /\ mainpc = "watching"
    /\ Len(queue) < MaxQueue
    /\ emitted < MaxEvents
    /\ queue' = Append(queue, e)
    /\ emitted' = emitted + 1
    /\ UNCHANGED <<processing, mainpc, hpc, event, inflight, exists>>
    /\ UNCHANGED <<compactVars, webVars>>

\* faulty variant of ObserverFree: events dispatched on a pool of threads
ObserverPooled == TRUE

\* the observer is one thread: it takes the next event only when the handler
\* call for the previous one has returned
ObserverFree == \A t \in Threads : hpc[t] = "idle"

\* the observer thread calls on_modified with the next queued event
Dispatch(t) ==
    /\ mainpc = "watching"
    /\ queue # <<>>
    /\ hpc[t] = "idle"
    /\ ObserverFree
    /\ event' = [event EXCEPT ![t] = Head(queue)]
    /\ queue' = Tail(queue)
    /\ hpc' = [hpc EXCEPT ![t] = "check"]
    /\ UNCHANGED <<processing, mainpc, inflight, emitted, exists>>
    /\ UNCHANGED <<compactVars, webVars>>

\* lines 154-160: directory events and other files return at once; voice.wav
\* goes on only when the flag is clear
HandlerCheck(t) ==
    /\ hpc[t] = "check"
    /\ IF ~event[t].is_directory /\ event[t].name = "voice.wav" /\ ~processing
         THEN hpc' = [hpc EXCEPT ![t] = "set"] /\ UNCHANGED event
         ELSE hpc' = [hpc EXCEPT ![t] = "idle"] /\ event' = [event EXCEPT ![t] = NoEvent]
    /\ UNCHANGED <<processing, mainpc, queue, inflight, emitted, exists>>
    /\ UNCHANGED <<compactVars, webVars>>

\* the value line 164 stores in the flag
FlagWhenBusy == TRUE

\* line 164
HandlerSet(t) ==
    /\ hpc[t] = "set"
    /\ processing' = FlagWhenBusy
    /\ hpc' = [hpc EXCEPT ![t] = "sleep"]
    /\ UNCHANGED <<mainpc, event, queue, inflight, emitted, exists>>
    /\ UNCHANGED <<compactVars, webVars>>

\* lines 168-172: sleep a second, then call detect_and_remove_silence
HandlerSleep(t) ==
    /\ hpc[t] = "sleep"
    /\ hpc' = [hpc EXCEPT ![t] = "compact"]
    /\ inflight' = inflight + 1
    /\ UNCHANGED <<processing, mainpc, event, queue, emitted, exists>>
    /\ UNCHANGED <<compactVars, webVars>>

\* lines 172-182: the call returns, or raises into the handler's except
HandlerCompact(t) ==
    /\ hpc[t] = "compact"
    /\ hpc' = [hpc EXCEPT ![t] = "clear"]
    /\ inflight' = inflight - 1
    /\ UNCHANGED <<processing, mainpc, event, queue, emitted, exists>>
    /\ UNCHANGED <<compactVars, webVars>>

\* lines 184-186: finally
HandlerClear(t) ==
    /\ hpc[t] = "clear"
    /\ processing' = FALSE
    /\ hpc' = [hpc EXCEPT ![t] = "idle"]
    /\ event' = [event EXCEPT ![t] = NoEvent]
    /\ UNCHANGED <<mainpc, queue, inflight, emitted, exists>>
    /\ UNCHANGED <<compactVars, webVars>>

\* lines 232-237: Ctrl+C stops the observer; a running handler finishes
StopObserver ==
    /\ mainpc = "watching"
    /\ mainpc' = "stopped"
    /\ UNCHANGED <<processing, hpc, event, queue, inflight, emitted, exists>>
    /\ UNCHANGED <<compactVars, webVars>>

WatchNext ==
    \/ InitialBegin
    \/ InitialEnd
    \/ StartObserver
    \/ \E e \in Events : Emit(e)
    \/ \E t \in Threads : Dispatch(t)
    \/ \E t \in Threads : HandlerCheck(t)
    \/ \E t \in Threads : HandlerSet(t)
    \/ \E t \in Threads : HandlerSleep(t)
    \/ \E t \in Threads : HandlerCompact(t)
    \/ \E t \in Threads : HandlerClear(t)
    \/ StopObserver

InitWatch == CompactIdle /\ WatchInit /\ WebIdle

SpecWatch == InitWatch /\ [][WatchNext]_vars

\* ------------------------------------------------ create_web_app.index
\* a form field: absent (the default applies), blank (falsy, the default
\* applies), a number, a negative number, or text float() rejects
FieldKinds == {"absent", "blank", "number", "negative", "garbage"}

Requests ==
    [method : {"GET"}]
    \cup [method : {"POST"},
          file : {"none", "emptyname", "ok"},
          silence_threshold : {"absent", "negative", "garbage"},
          min_silence_duration : {"absent", "number", "garbage"},
          target_silence_duration : FieldKinds,
          decodable : BOOLEAN,      \* librosa.load can read the upload
          long_silence : BOOLEAN,   \* the audio has a run that gets shortened
          writable : BOOLEAN]       \* sf.write succeeds

WebInit ==
    /\ wpc = "idle"
    /\ request = NoRequest
    /\ response = "none"
    /\ written = FALSE
    /\ failed = FALSE
    /\ raised = FALSE

WebRequest(r) ==
    /\ wpc = "idle"
    /\ request' = r
    /\ wpc' = "received"
    /\ response' = "none"
    /\ written' = FALSE
    /\ failed' = FALSE
    /\ raised' = FALSE
    /\ UNCHANGED <<compactVars, watchVars>>

\* float(params[x] or default) raises ValueError
ParseFails(r) ==
    \/ r.silence_threshold = "garbage"
    \/ r.min_silence_duration = "garbage"
    \/ r.target_silence_duration = "garbage"

\* lines 301-341: GET, missing file, parameter parsing, saving the upload
WebValidate ==
    /\ wpc = "received"
    /\ IF request.method = "GET"
         THEN wpc' = "responded" /\ response' = "form"
         ELSE IF request.file \in {"none", "emptyname"} \/ ParseFails(request)
           THEN wpc' = "responded" /\ response' = "form_error"
           ELSE wpc' = "saved" /\ UNCHANGED response
    /\ UNCHANGED <<request, written, failed, raised>>
    /\ UNCHANGED <<compactVars, watchVars>>

\* lines 38-39: except Exception catches whatever the body raised, prints it
\* and returns normally
DetectPropagates == FALSE

\* line 25: librosa.load
DetectLoad ==
    /\ wpc = "saved"
    /\ IF request.decodable
         THEN wpc' = "loaded" /\ UNCHANGED <<failed, raised>>
         ELSE wpc' = "returned" /\ failed' = TRUE /\ raised' = DetectPropagates
    /\ UNCHANGED <<request, response, written>>
    /\ UNCHANGED <<compactVars, watchVars>>

\* line 30: process_audio_simple raises when np.zeros gets a negative size
DetectProcess ==
    /\ wpc = "loaded"
    /\ IF request.target_silence_duration = "negative" /\ request.long_silence
         THEN wpc' = "returned" /\ failed' = TRUE /\ raised' = DetectPropagates
         ELSE wpc' = "processed" /\ UNCHANGED <<failed, raised>>
    /\ UNCHANGED <<request, response, written>>
    /\ UNCHANGED <<compactVars, watchVars>>

\* line 35: sf.write
DetectWrite ==
    /\ wpc = "processed"
    /\ wpc' = "returned"
    /\ IF request.writable
         THEN written' = TRUE /\ UNCHANGED <<failed, raised>>
         ELSE failed' = TRUE /\ raised' = DetectPropagates /\ UNCHANGED written
    /\ UNCHANGED <<request, response>>
    /\ UNCHANGED <<compactVars, watchVars>>

\* lines 343-356: the except branch when the call raised, else send_file
WebAfterDetect ==
    /\ wpc = "returned"
    /\ IF raised
         THEN wpc' = "responded" /\ response' = "form_error"
         ELSE wpc' = "send_file" /\ UNCHANGED response
    /\ UNCHANGED <<request, written, failed, raised>>
    /\ UNCHANGED <<compactVars, watchVars>>

\* line 356: send_file opens the output file; a missing file is an error
\* response, not the form page
WebSendFile ==
    /\ wpc = "send_file"
    /\ wpc' = "responded"
    /\ response' = IF written THEN "download" ELSE "server_error"
    /\ UNCHANGED <<request, written, failed, raised>>
    /\ UNCHANGED <<compactVars, watchVars>>

\* the next request
WebDone ==
    /\ wpc = "responded"
    /\ wpc' = "idle"
    /\ UNCHANGED <<request, response, written, failed, raised>>
    /\ UNCHANGED <<compactVars, watchVars>>

WebNext ==
    \/ \E r \in Requests : WebRequest(r)
    \/ WebValidate
    \/ DetectLoad
    \/ DetectProcess
    \/ DetectWrite
    \/ WebAfterDetect
    \/ WebSendFile
    \/ WebDone

InitWeb == CompactIdle /\ WatchIdle /\ WebInit

SpecWeb == InitWeb /\ [][WebNext]_vars

\* ------------------------------------------------------------ properties
ValidParams == sr > 0 /\ min_silence_duration >= 0 /\ target_silence_duration >= 0

\* the part of the output that run r produced
OutPiece(r) == SubSeq(result, r.out_start + 1, r.out_end)

\* the input sample range [start_sample, end_sample) of run r
InPiece(r) == SubSeq(audio, r.start_sample + 1, r.end_sample)

AnyShortened == \E k \in 1..Len(runs) : runs[k].shortened

\* C1: whenever compact accepts its parameters, the output has at most as
\* many samples as the input if some silent run was shortened, and exactly as
\* many if none was.
C1_OutputNotLonger ==
    (pc = "done" /\ ValidParams) =>
        IF AnyShortened THEN Len(result) <= Len(audio)
                        ELSE Len(result) = Len(audio)

\* the input samples whose frame (sample index \div hop_length) is audible
RECURSIVE AudibleInput(_)
AudibleInput(n) ==
    IF n = 0 THEN <<>>
    ELSE LET rest == AudibleInput(n - 1)
         IN  IF silent_frames[((n - 1) \div HopLength(sr)) + 1]
               THEN rest ELSE Append(rest, audio[n])

\* the output samples that audible runs produced
RECURSIVE AudibleOutput(_)
AudibleOutput(k) ==
    IF k = 0 THEN <<>>
    ELSE IF runs[k].silent THEN AudibleOutput(k - 1)
         ELSE AudibleOutput(k - 1) \o OutPiece(runs[k])

\* C2: the audible samples of the input, in order, are exactly the audible
\* portions of the output, in order: none altered, dropped, repeated or moved.
C2_AudiblePreserved ==
    pc = "done" => AudibleInput(Len(audio)) = AudibleOutput(Len(runs))

C2_Witness ==
    /\ pc = "done" /\ ValidParams /\ Len(runs) >= 3
    /\ AnyShortened
    /\ ~runs[Len(runs)].silent
    /\ runs[Len(runs)].last * HopLength(sr) > Len(audio)
    /\ runs[Len(runs)].end_sample > runs[Len(runs)].start_sample

\* duration of run r below / at least min_silence_duration, the duration
\* being the run's frame count times hop_length / sr
ShortRun(r) == (r.last - r.first) * HopLength(sr) * 1000 < min_silence_duration * sr
LongRun(r) == ~ShortRun(r)

C4_RoundedSilence ==
    (pc = "done" /\ ValidParams) =>
        \A k \in 1..Len(runs) :
            (runs[k].silent /\ LongRun(runs[k])) =>
                OutPiece(runs[k]) = Zeros(RoundDiv(target_silence_duration * sr, 1000))

\* C4 amended: every silent run of duration at least min_silence_duration is
\* replaced by exactly int(target_silence_duration * sr) zero samples, the
\* product truncated toward zero, whatever the run's length.
C4_TruncatedSilence ==
    (pc = "done" /\ ValidParams) =>
        \A k \in 1..Len(runs) :
            (runs[k].silent /\ LongRun(runs[k])) =>
                /\ Len(OutPiece(runs[k])) = (target_silence_duration * sr) \div 1000
                /\ \A j \in 1..Len(OutPiece(runs[k])) : OutPiece(runs[k])[j] = 0

C4_Witness ==
    /\ pc = "done" /\ ValidParams
    /\ (target_silence_duration * sr) % 1000 # 0
    /\ \E k \in 1..Len(runs) :
          /\ runs[k].silent /\ LongRun(runs[k])
          /\ \E j \in 1..Len(InPiece(runs[k])) : InPiece(runs[k])[j] # 0
          /\ Len(InPiece(runs[k])) # Len(OutPiece(runs[k]))

\* C5: invalid parameters (sr <= 0, a negative duration) are rejected before
\* any processing: no frame is scanned, no segment and no output is produced.
C5_InvalidRejected ==
    ~ValidParams =>
        /\ pc \in {"start", "error"}
        /\ i = 0 /\ segments = <<>> /\ runs = <<>> /\ result = <<>>

AllZero == \A j \in 1..Len(audio) : audio[j] = 0

\* C6: an all-zero waveform whose duration is at least min_silence_duration
\* compacts to target_silence_duration of zero samples and nothing else.
C6_AllSilentCompacts ==
    (pc = "done" /\ pass = 1 /\ ValidParams /\ AllZero
        /\ Len(audio) * 1000 >= min_silence_duration * sr) =>
        /\ Len(result) \in {IntTrunc(target_silence_duration * sr, 1000),
                            RoundDiv(target_silence_duration * sr, 1000)}
        /\ \A j \in 1..Len(result) : result[j] = 0

\* C7: with target_silence_duration >= min_silence_duration, compacting the
\* output of compact again with the same parameters returns it unchanged.
C7_Idempotent ==
    (pc = "done" /\ pass = 2 /\ ValidParams
        /\ target_silence_duration >= min_silence_duration) =>
        result = audio

\* the runs found so far partition frames 0 .. i-1
ScanPartition ==
    (pc \in {"scan", "done"}) =>
        /\ i <= Len(silent_frames)
        /\ i = (IF runs = <<>> THEN 0 ELSE runs[Len(runs)].last)
        /\ \A k \in 1..Len(runs) :
              LET r == runs[k] IN
              /\ r.first < r.last
              /\ r.first = (IF k = 1 THEN 0 ELSE runs[k - 1].last)
              /\ \A t \in r.first..(r.last - 1) : silent_frames[t + 1] = r.silent
              /\ k > 1 => runs[k - 1].silent # r.silent
              /\ r.start_sample = r.first * HopLength(sr)
              /\ r.start_sample = (IF k = 1 THEN 0 ELSE runs[k - 1].end_sample)
              /\ IF r.last < Len(silent_frames)
                   THEN r.end_sample = r.last * HopLength(sr)
                   ELSE r.end_sample = Len(audio)
        /\ pc = "done" => i = Len(silent_frames)

\* every iteration of the scan consumes at least one frame or leaves the loop
ScanAdvances == (pc = "scan") => (i' > i \/ pc' # "scan")

\* C9: the scan terminates and partitions the frames into maximal runs of one
\* classification: contiguous, in increasing order, alternating, with every
\* boundary a multiple of hop_length except the final end, which is the
\* waveform length.
C9_ScanPartitions == []ScanPartition /\ [][ScanAdvances]_vars

C9_Witness ==
    /\ pc = "done" /\ Len(runs) >= 3
    /\ runs[Len(runs)].last * HopLength(sr) > Len(audio)
    /\ \E k \in 1..Len(runs) : runs[k].last - runs[k].first >= 2

\* handler calls that have set the flag and not yet cleared it
Busy == {t \in Threads : hpc[t] \in {"sleep", "compact", "clear"}}

\* C8: whatever events arrive, also while an earlier one is being handled, at
\* most one compaction of voice.wav is in flight, at most one handler call is
\* between setting and clearing the flag, and the flag is set all that time.
C8_OneCompactionInFlight ==
    /\ inflight <= 1
    /\ Cardinality(Busy) <= 1
    /\ Busy # {} => processing

C8_Witness ==
    /\ inflight = 1
    /\ \E t \in Threads : hpc[t] = "compact"
    /\ \E k \in 1..Len(queue) : ~queue[k].is_directory /\ queue[k].name = "voice.wav"

\* C10: when processing of an upload fails, the handler answers with the form
\* page and an error and never goes on to send the download; a download is
\* sent only after the output file was written.
C10_FailureShowsError ==
    /\ failed => wpc # "send_file"
    /\ (failed /\ wpc = "responded") => response = "form_error"
    /\ response = "download" => written

====
